---------------------------- MODULE Spec2Model ----------------------------
(***************************************************************************)
(* A model of NL-ProjectAnalyzer (src/project_analyzer.py): the ignore     *)
(* pattern engine (IgnoreMatcher), the per-file measurement routine        *)
(* (calculate_stats), the aggregate merge (FileStats.add) and the scan     *)
(* loop of main().                                                         *)
(*                                                                         *)
(* Strings are TLA+ strings; a file's content is a string of one-character *)
(* "bytes".  Python's bool is an int subclass (False == 0, True == 1,      *)
(* True + 1 == 2), so FileStats.skipped is modelled as a natural number.   *)
(* The model is POSIX: os.sep is "/" and os.path.normcase is the identity. *)
(***************************************************************************)
EXTENDS Naturals, Integers, Sequences, FiniteSets, Bags, TLC

VARIABLES
    (* ---- IgnoreMatcher.is_ignored called as a function (SpecIgnore) ---- *)
    ig_patterns,   \* self.patterns of the matcher under test
    ig_path,       \* the path handed to is_ignored (absolute, under ig root)
    ig_dirsA,      \* directories existing on disk during evaluation A
    ig_dirsB,      \* directories existing on disk during evaluation B
    ig_resA,       \* result of evaluation A: "unset", "yes" or "no"
    ig_resB,       \* result of evaluation B: "unset", "yes" or "no"
    (* ---- three FileStats merged in two groupings (SpecAssoc) ---- *)
    as_in,         \* the three objects A, B, C before any merge
    as_la,         \* A of the run that does A.add(B); A.add(C)
    as_ra,         \* A of the run that does B.add(C); A.add(B)
    as_rb,         \* B of the run that does B.add(C); A.add(B)
    as_pcL,        \* number of merges done by the first run
    as_pcR,        \* number of merges done by the second run
    as_files,      \* per object, the inputs folded into it so far
    (* ---- the same records folded in two orders (SpecFold) ---- *)
    fo_in,         \* the records to fold, by index
    fo_x,          \* aggregate folding them in index order
    fo_nx,         \* number of records folded into fo_x
    fo_y,          \* aggregate folding them in any order
    fo_doneY,      \* indices of the records folded into fo_y
    (* ---- one run of main() (Spec, LiveSpec) ---- *)
    pc,                \* where main() is
    fs,                \* the directory tree at target_dir_abs
    global_ignore,     \* the .analyzerignore beside the script, or NoFile
    has_lizard,        \* HAS_LIZARD
    patterns,          \* ignore_matcher.patterns
    walk_stack,        \* directories os.walk has still to yield
    cur_root,          \* root of the current os.walk triple
    cur_files,         \* files of the current triple not yet looped over
    total_stats,       \* total_stats
    all_file_details,  \* all_file_details
    folder_stats_map,  \* folder_stats_map
    descended,         \* history: the directories os.walk has yielded
    measured           \* history: the paths handed to calculate_stats

igVars == <<ig_patterns, ig_path, ig_dirsA, ig_dirsB, ig_resA, ig_resB>>

asVars == <<as_in, as_la, as_ra, as_rb, as_pcL, as_pcR, as_files>>

foVars == <<fo_in, fo_x, fo_nx, fo_y, fo_doneY>>

scanVars == <<pc, fs, global_ignore, has_lizard, patterns, walk_stack,
              cur_root, cur_files, total_stats, all_file_details,
              folder_stats_map, descended, measured>>

vars == <<igVars, asVars, foVars, scanVars>>

---------------------------------------------------------------------------
(* Bounds of the model *)

\* longest pattern list handed to is_ignored in SpecIgnore
MaxPatterns == 2

\* number of records folded into each aggregate in SpecFold
NumRecords == 3

\* number of files of a scanned tree on which something fails
MaxFaulty == 1

---------------------------------------------------------------------------
(* String helpers: str.startswith, str.endswith, str.rstrip('/'), ...      *)

StartsWith(s, p) == Len(p) <= Len(s) /\ SubSeq(s, 1, Len(p)) = p

EndsWith(s, p) == Len(p) <= Len(s) /\ SubSeq(s, Len(s) - Len(p) + 1, Len(s)) = p

\* the greatest element of a set of naturals, 0 for the empty set
MaxOf(S) == IF S = {} THEN 0 ELSE CHOOSE m \in S : \A x \in S : x <= m

\* pattern.rstrip('/'): every trailing separator is removed
RStripSlash(s) ==
    SubSeq(s, 1, MaxOf({i \in 1..Len(s) : SubSeq(s, i, i) # "/"}))

\* str.rfind(c) + 1: the index of the last c in s, 0 when there is none
LastIndexOf(s, c) == MaxOf({i \in 1..Len(s) : SubSeq(s, i, i) = c})

\* os.path.basename: what follows the last separator
Basename(path) == SubSeq(path, LastIndexOf(path, "/") + 1, Len(path))

\* the "/"-separated segments of a path, empty segments dropped
RECURSIVE SplitSegs(_, _)
SplitSegs(s, cur) ==
    IF s = "" THEN (IF cur = "" THEN <<>> ELSE <<cur>>)
    ELSE IF Head(s) = "/"
         THEN (IF cur = "" THEN <<>> ELSE <<cur>>) \o SplitSegs(Tail(s), "")
         ELSE SplitSegs(Tail(s), cur \o Head(s))

\* os.path.normpath on the segments: "." dropped, ".." pops a segment
RECURSIVE NormSegs(_, _)
NormSegs(segs, acc) ==
    IF segs = <<>> THEN acc
    ELSE IF Head(segs) = "." THEN NormSegs(Tail(segs), acc)
    ELSE IF Head(segs) = ".." /\ acc # <<>>
         THEN NormSegs(Tail(segs), SubSeq(acc, 1, Len(acc) - 1))
    ELSE IF Head(segs) = ".." THEN NormSegs(Tail(segs), acc)
    ELSE NormSegs(Tail(segs), Append(acc, Head(segs)))

Segs(path) == NormSegs(SplitSegs(path, ""), <<>>)

RECURSIVE JoinSegs(_)
JoinSegs(segs) ==
    IF segs = <<>> THEN ""
    ELSE IF Len(segs) = 1 THEN segs[1]
    ELSE segs[1] \o "/" \o JoinSegs(Tail(segs))

\* os.path.join(a, b): an absolute b replaces a
Join(a, b) ==
    IF StartsWith(b, "/") THEN b
    ELSE IF a = "" \/ EndsWith(a, "/") THEN a \o b
    ELSE a \o "/" \o b

\* length of the longest common prefix of two segment lists
RECURSIVE CommonLen(_, _)
CommonLen(a, b) ==
    IF a = <<>> \/ b = <<>> \/ Head(a) # Head(b) THEN 0
    ELSE 1 + CommonLen(Tail(a), Tail(b))

\* os.path.relpath(path, start) for absolute paths (posixpath.relpath)
Relpath(path, start) ==
    LET p == Segs(path)
        s == Segs(start)
        i == CommonLen(p, s)
        ups == [k \in 1..(Len(s) - i) |-> ".."]
        rel == ups \o SubSeq(p, i + 1, Len(p))
    IN IF rel = <<>> THEN "." ELSE JoinSegs(rel)

\* os.path.isdir(p) on a disk whose directories are dirs (absolute paths)
IsDir(p, dirs) == ("/" \o JoinSegs(Segs(p))) \in dirs

---------------------------------------------------------------------------
(* fnmatch.fnmatch(name, pat) on POSIX: "*" matches any run of characters  *)
(* (separators included), "?" one character, anything else itself.  The   *)
(* patterns of the model hold no "[", so character classes do not arise.   *)

RECURSIVE Fnmatch(_, _)
Fnmatch(name, pat) ==
    IF pat = "" THEN name = ""
    ELSE IF Head(pat) = "*"
         THEN Fnmatch(name, Tail(pat))
              \/ (name # "" /\ Fnmatch(Tail(name), pat))
    ELSE IF Head(pat) = "?"
         THEN name # "" /\ Fnmatch(Tail(name), Tail(pat))
    ELSE name # "" /\ Head(name) = Head(pat) /\ Fnmatch(Tail(name), Tail(pat))

---------------------------------------------------------------------------
(* IgnoreMatcher.is_ignored(path): patterns is self.patterns, root is      *)
(* self.root_dir, dirs the directories on disk when the call is made.      *)

\* rule 3 with the separator forgotten: startswith(clean_pattern)
IsIgnoredNoSeparator(path, pats, root, dirs) ==
    LET rel_path == Relpath(path, root)
        name == Basename(path)
    IN \E i \in 1..Len(pats) :
          LET pattern == pats[i]
              clean_pattern == RStripSlash(pattern)
          IN \/ Fnmatch(name, clean_pattern)
             \/ Fnmatch(rel_path, clean_pattern)
             \/ /\ (EndsWith(pattern, "/") \/ IsDir(Join(root, pattern), dirs))
                /\ StartsWith(rel_path, clean_pattern)

IsIgnored(path, pats, root, dirs) ==
    LET rel_path == Relpath(path, root)
        name == Basename(path)
    IN \E i \in 1..Len(pats) :
          LET pattern == pats[i]
              clean_pattern == RStripSlash(pattern)
          IN \/ Fnmatch(name, clean_pattern)
             \/ Fnmatch(rel_path, clean_pattern)
             \/ /\ (EndsWith(pattern, "/") \/ IsDir(Join(root, pattern), dirs))
                /\ StartsWith(rel_path, clean_pattern \o "/")

---------------------------------------------------------------------------
(* Program constants *)

\* BINARY_EXTENSIONS
BINARY_EXTENSIONS ==
    {".png", ".jpg", ".jpeg", ".gif", ".ico", ".pdf", ".zip", ".tar", ".gz",
     ".exe", ".dll", ".so", ".bin", ".dat", ".mp3", ".mp4", ".avi", ".mov",
     ".woff", ".woff2", ".ttf", ".eot"}

BLOCK_SIZE == 4096

\* the number of bytes is_binary_file reads: f.read(1024)
ChunkSize == 1024

\* st_blocks is counted in units of 512 bytes
StBlockUnit == 512

---------------------------------------------------------------------------
(* Bytes and characters.  A file's content is a string of one-character    *)
(* bytes; two bytes that a TLA+ string cannot hold are written as digits   *)
(* (no file of the model holds a digit otherwise).                         *)

\* the null byte b'\0'
NUL == "0"

\* a byte that is no valid UTF-8
BADBYTE == "9"

\* string.whitespace (without \x0b, which TLA+ strings cannot hold)
Whitespace == " \t\n\r\f"

\* string.punctuation (without the backquote, which TLA+ strings cannot hold)
Punctuation == "!\"#$%&'()*+,-./:;<=>?@[\\]^_{|}~"

UpperAlpha == "ABCDEFGHIJKLMNOPQRSTUVWXYZ"

LowerAlpha == "abcdefghijklmnopqrstuvwxyz"

Contains(s, c) == \E i \in 1..Len(s) : SubSeq(s, i, i) = c

\* str.lower() on one character
LowerChar(c) ==
    IF Contains(UpperAlpha, c)
    THEN LET i == CHOOSE k \in 1..Len(UpperAlpha) : SubSeq(UpperAlpha, k, k) = c
         IN SubSeq(LowerAlpha, i, i)
    ELSE c

RECURSIVE Lower(_)
Lower(s) == IF s = "" THEN "" ELSE LowerChar(Head(s)) \o Lower(Tail(s))

\* os.path.splitext(path)[1]: from the last dot of the base name, unless
\* nothing but dots precedes it
Splitext(path) ==
    LET name == Basename(path)
        d == LastIndexOf(name, ".")
    IN IF d > 0 /\ \E k \in 1..(d - 1) : SubSeq(name, k, k) # "."
       THEN SubSeq(name, d, Len(name))
       ELSE ""

\* decoding with errors='ignore': undecodable bytes are dropped
RECURSIVE DecodeIgnore(_)
DecodeIgnore(bytes) ==
    IF bytes = "" THEN ""
    ELSE IF Head(bytes) = BADBYTE THEN DecodeIgnore(Tail(bytes))
    ELSE Head(bytes) \o DecodeIgnore(Tail(bytes))

\* text mode with newline=None: "\r\n" and "\r" are read as "\n"
\* (after_cr: the character before s was a "\r")
RECURSIVE TranslateNewlines(_, _)
TranslateNewlines(s, after_cr) ==
    IF s = "" THEN ""
    ELSE IF Head(s) = "\r" THEN "\n" \o TranslateNewlines(Tail(s), TRUE)
    ELSE IF Head(s) = "\n" /\ after_cr THEN TranslateNewlines(Tail(s), FALSE)
    ELSE Head(s) \o TranslateNewlines(Tail(s), FALSE)

UniversalNewlines(s) == TranslateNewlines(s, FALSE)

\* open(filepath, 'r', encoding='utf-8', errors='ignore').read()
ReadText(bytes) == UniversalNewlines(DecodeIgnore(bytes))

\* splitlines counted by line ends: a last line without one is lost
RECURSIVE SplitLinesTerminatedOnly(_, _, _)
SplitLinesTerminatedOnly(s, cur, after_cr) ==
    IF s = "" THEN <<>>
    ELSE IF Head(s) = "\n" /\ after_cr
         THEN SplitLinesTerminatedOnly(Tail(s), "", FALSE)
    ELSE IF Head(s) \in {"\n", "\r", "\f"}
         THEN <<cur>> \o SplitLinesTerminatedOnly(Tail(s), "", Head(s) = "\r")
    ELSE SplitLinesTerminatedOnly(Tail(s), cur \o Head(s), FALSE)

\* str.splitlines(): a line ends at "\n", "\r", "\r\n" or "\f"; no empty
\* last line after a final line end (after_cr: the character before s was
\* a "\r", so that a "\n" now belongs to the same line end)
RECURSIVE SplitLines(_, _, _)
SplitLines(s, cur, after_cr) ==
    IF s = "" THEN (IF cur = "" THEN <<>> ELSE <<cur>>)
    ELSE IF Head(s) = "\n" /\ after_cr THEN SplitLines(Tail(s), "", FALSE)
    ELSE IF Head(s) \in {"\n", "\r", "\f"}
         THEN <<cur>> \o SplitLines(Tail(s), "", Head(s) = "\r")
    ELSE SplitLines(Tail(s), cur \o Head(s), FALSE)

\* content.translate(str.maketrans('', '', string.whitespace))
RECURSIVE RemoveWhitespace(_)
RemoveWhitespace(s) ==
    IF s = "" THEN ""
    ELSE IF Contains(Whitespace, Head(s)) THEN RemoveWhitespace(Tail(s))
    ELSE Head(s) \o RemoveWhitespace(Tail(s))

\* content.translate(str.maketrans(string.punctuation, ' ' * len(...)))
RECURSIVE PunctuationToSpace(_)
PunctuationToSpace(s) ==
    IF s = "" THEN ""
    ELSE (IF Contains(Punctuation, Head(s)) THEN " " ELSE Head(s))
         \o PunctuationToSpace(Tail(s))

\* str.split(): the maximal runs of non-whitespace characters
RECURSIVE SplitWords(_, _)
SplitWords(s, cur) ==
    IF s = "" THEN (IF cur = "" THEN <<>> ELSE <<cur>>)
    ELSE IF Contains(Whitespace, Head(s))
         THEN (IF cur = "" THEN <<>> ELSE <<cur>>) \o SplitWords(Tail(s), "")
    ELSE SplitWords(Tail(s), cur \o Head(s))

\* Counter built from a list: each element with its number of occurrences
RECURSIVE CounterOf(_)
CounterOf(seq) ==
    IF seq = <<>> THEN EmptyBag
    ELSE SetToBag({Head(seq)}) (+) CounterOf(Tail(seq))

RECURSIVE SumSeq(_)
SumSeq(seq) == IF seq = <<>> THEN 0 ELSE Head(seq) + SumSeq(Tail(seq))

MaxSeq(seq) == CHOOSE m \in {seq[i] : i \in 1..Len(seq)} :
                  \A i \in 1..Len(seq) : seq[i] <= m

---------------------------------------------------------------------------
(* FileStats.  The fields are those of FileStats.__init__, stats_summary   *)
(* excepted (a per-file summary that no merge reads).  complexity_avg is   *)
(* kept in hundredths, as round(x, 2) keeps two decimals.                  *)

\* Python's None, for the paths of an aggregate
NONE == "<None>"

\* FileStats(): the aggregate before anything is folded in
FreshStats ==
    [filepath |-> NONE, relpath |-> NONE, filename |-> "",
     count |-> 0, size |-> 0, disk_usage |-> 0,
     char_count |-> 0, char_count_no_space |-> 0, line_count |-> 0,
     word_counter |-> EmptyBag, lines_lengths |-> <<>>,
     extensions |-> EmptyBag, skipped |-> 0,
     complexity_avg |-> 0, complexity_max |-> 0, functions_count |-> 0]

\* FileStats(filepath, root_dir)
NewFileStats(filepath, root_dir) ==
    [FreshStats EXCEPT !.filepath = filepath,
                       !.relpath = Relpath(filepath, root_dir),
                       !.filename = Basename(filepath)]

\* add with complexity_max overwritten by the other's value
AddLastComplexityWins(self, other) ==
    [self EXCEPT
        !.count = @ + other.count,
        !.size = @ + other.size,
        !.disk_usage = @ + other.disk_usage,
        !.char_count = @ + other.char_count,
        !.char_count_no_space = @ + other.char_count_no_space,
        !.line_count = @ + other.line_count,
        !.word_counter = @ (+) other.word_counter,
        !.lines_lengths = @ \o other.lines_lengths,
        !.extensions = @ (+) other.extensions,
        !.complexity_max = other.complexity_max,
        !.skipped = IF other.skipped # 0 THEN @ + 1 ELSE @]

\* FileStats.add(self, other): self after the call
Add(self, other) ==
    [self EXCEPT
        !.count = @ + other.count,
        !.size = @ + other.size,
        !.disk_usage = @ + other.disk_usage,
        !.char_count = @ + other.char_count,
        !.char_count_no_space = @ + other.char_count_no_space,
        !.line_count = @ + other.line_count,
        !.word_counter = @ (+) other.word_counter,
        !.lines_lengths = @ \o other.lines_lengths,
        !.extensions = @ (+) other.extensions,
        !.complexity_max = IF other.complexity_max > @
                           THEN other.complexity_max ELSE @,
        !.skipped = IF other.skipped # 0 THEN @ + 1 ELSE @]

---------------------------------------------------------------------------
(* Files.  A file of the model is a record                                 *)
(*   path   its absolute path                                              *)
(*   bytes  its content                                                    *)
(*   blocks st_blocks, or -1 on a platform whose stat result has none      *)
(*   funcs  the cyclomatic complexities of the functions lizard finds      *)
(*   fault  what fails on it:                                              *)
(*     "none"     nothing                                                  *)
(*     "stat"     os.stat raises (a broken symbolic link)                  *)
(*     "open"     open, or the first read after it, raises                 *)
(*     "readlate" the first 1024 bytes are read, a later read raises       *)
(*     "probe"    lizard.analyze_file raises                               *)

Faults == {"none", "stat", "open", "readlate", "probe"}

MkFile(path, bytes, blocks, funcs, fault) ==
    [path |-> path, bytes |-> bytes, blocks |-> blocks, funcs |-> funcs,
     fault |-> fault]

\* no file at all (an ignore file that does not exist)
NoFile == MkFile("", "", 0, <<>>, "absent")

\* os.path.exists(path), which follows symbolic links as os.stat does
Exists(file) == file # NoFile /\ file.fault # "stat"

\* is_binary_file(filepath); what os.stat cannot reach, open cannot either
IsBinaryFile(file) ==
    IF Lower(Splitext(file.path)) \in BINARY_EXTENSIONS THEN TRUE
    ELSE IF file.fault \in {"stat", "open"} THEN TRUE
    ELSE Contains(SubSeq(file.bytes, 1,
                         IF Len(file.bytes) < ChunkSize
                         THEN Len(file.bytes) ELSE ChunkSize), NUL)

\* analyze_complexity(filepath, stats_obj): stats_obj after the call
AnalyzeComplexity(file, stats_obj, lizard) ==
    IF ~lizard \/ stats_obj.skipped # 0 THEN stats_obj
    ELSE IF file.fault = "probe" THEN stats_obj
    ELSE LET n == Len(file.funcs)
         IN IF n > 0
            THEN [stats_obj EXCEPT
                    !.functions_count = n,
                    !.complexity_avg =
                        (200 * SumSeq(file.funcs) + n) \div (2 * n),
                    !.complexity_max = MaxSeq(file.funcs)]
            ELSE [stats_obj EXCEPT !.functions_count = n]

\* calculate_stats where a failing os.stat is not noticed
CalculateStatsFrom(file, root_dir, lizard, stat_ok) ==
    LET stats0 == [NewFileStats(file.path, root_dir) EXCEPT !.count = 1]
        size == Len(file.bytes)
        ext == Lower(Splitext(file.path))
        stats1 == [stats0 EXCEPT
                     !.size = size,
                     !.disk_usage =
                         IF file.blocks >= 0 THEN file.blocks * StBlockUnit
                         ELSE ((size + BLOCK_SIZE - 1) \div BLOCK_SIZE)
                              * BLOCK_SIZE,
                     !.extensions =
                         SetToBag({IF ext = "" THEN "no_ext" ELSE ext})]
        content == ReadText(file.bytes)
        lines == SplitLines(content, "", FALSE)
        words == SplitWords(PunctuationToSpace(content), "")
        stats2 == [stats1 EXCEPT
                     !.char_count = Len(content),
                     !.char_count_no_space = Len(RemoveWhitespace(content)),
                     !.line_count = Len(lines),
                     !.lines_lengths = [i \in 1..Len(lines) |-> Len(lines[i])],
                     !.word_counter = CounterOf(words)]
    IN IF ~stat_ok THEN stats0
       ELSE IF IsBinaryFile(file) THEN [stats1 EXCEPT !.skipped = 1]
       ELSE IF file.fault = "readlate" THEN [stats1 EXCEPT !.skipped = 1]
       ELSE AnalyzeComplexity(file, stats2, lizard)

\* calculate_stats(filepath, root_dir): the record returned
CalculateStats(file, root_dir, lizard) ==
    CalculateStatsFrom(file, root_dir, lizard, file.fault # "stat")

---------------------------------------------------------------------------
(* The records the merge specifications fold: what calculate_stats returns *)
(* for a text file, two source files with functions, a file with a binary  *)
(* extension and a file holding a null byte.                               *)

MergeRoot == "/r"

MergeFileLib ==
    {MkFile("/r/a.txt", "a b c\nd e\nf", 8, <<>>, "none"),
     MkFile("/r/src/m.py", "x = y\n", 8, <<3, 1>>, "none"),
     MkFile("/r/src/k.py", "a b\n", 8, <<2>>, "none"),
     MkFile("/r/img.PNG", "ab", 8, <<>>, "none"),
     MkFile("/r/data", "a" \o NUL \o "b", 8, <<>>, "none")}

RecLib == {CalculateStats(f, MergeRoot, TRUE) : f \in MergeFileLib}

\* the number of files flagged skipped among the objects named in names
RECURSIVE SkippedAmong(_, _)
SkippedAmong(names, objs) ==
    IF names = <<>> THEN 0
    ELSE (IF objs[Head(names)].skipped # 0 THEN 1 ELSE 0)
         + SkippedAmong(Tail(names), objs)

---------------------------------------------------------------------------
(* The other specifications' variables, at rest *)

IgnIdle ==
    /\ ig_patterns = <<>>
    /\ ig_path = ""
    /\ ig_dirsA = {}
    /\ ig_dirsB = {}
    /\ ig_resA = "unset"
    /\ ig_resB = "unset"

AssocIdle ==
    /\ as_in = <<>>
    /\ as_la = FreshStats
    /\ as_ra = FreshStats
    /\ as_rb = FreshStats
    /\ as_pcL = 0
    /\ as_pcR = 0
    /\ as_files = <<>>

FoldIdle ==
    /\ fo_in = <<>>
    /\ fo_x = FreshStats
    /\ fo_nx = 0
    /\ fo_y = FreshStats
    /\ fo_doneY = {}

ScanIdle ==
    /\ pc = "Idle"
    /\ fs = <<>>
    /\ global_ignore = NoFile
    /\ has_lizard = FALSE
    /\ patterns = <<>>
    /\ walk_stack = <<>>
    /\ cur_root = ""
    /\ cur_files = <<>>
    /\ total_stats = FreshStats
    /\ all_file_details = <<>>
    /\ folder_stats_map = <<>>
    /\ descended = {}
    /\ measured = {}

---------------------------------------------------------------------------
(* SpecAssoc: three objects A, B, C (records of files, or fresh            *)
(* aggregates) merged as (A + B) + C by one run and as A + (B + C) by      *)
(* another.  add works in place: each run has its own copies.              *)

AssocInit ==
    /\ as_in \in [{"A", "B", "C"} -> RecLib \cup {FreshStats}]
    /\ as_la = as_in["A"]
    /\ as_ra = as_in["A"]
    /\ as_rb = as_in["B"]
    /\ as_pcL = 0
    /\ as_pcR = 0
    /\ as_files = [la |-> <<"A">>, ra |-> <<"A">>, rb |-> <<"B">>]
    /\ IgnIdle /\ FoldIdle /\ ScanIdle

\* first run, A.add(B)
LeftAddB ==
    /\ as_pcL = 0
    /\ as_la' = Add(as_la, as_in["B"])
    /\ as_files' = [as_files EXCEPT !.la = @ \o <<"B">>]
    /\ as_pcL' = 1
    /\ UNCHANGED <<as_in, as_ra, as_rb, as_pcR, igVars, foVars, scanVars>>

\* first run, A.add(C)
LeftAddC ==
    /\ as_pcL = 1
    /\ as_la' = Add(as_la, as_in["C"])
    /\ as_files' = [as_files EXCEPT !.la = @ \o <<"C">>]
    /\ as_pcL' = 2
    /\ UNCHANGED <<as_in, as_ra, as_rb, as_pcR, igVars, foVars, scanVars>>

\* second run, B.add(C)
RightAddC ==
    /\ as_pcR = 0
    /\ as_rb' = Add(as_rb, as_in["C"])
    /\ as_files' = [as_files EXCEPT !.rb = @ \o <<"C">>]
    /\ as_pcR' = 1
    /\ UNCHANGED <<as_in, as_la, as_ra, as_pcL, igVars, foVars, scanVars>>

\* second run, A.add(B), with the B that holds C
RightAddB ==
    /\ as_pcR = 1
    /\ as_ra' = Add(as_ra, as_rb)
    /\ as_files' = [as_files EXCEPT !.ra = @ \o as_files.rb]
    /\ as_pcR' = 2
    /\ UNCHANGED <<as_in, as_la, as_rb, as_pcL, igVars, foVars, scanVars>>

AssocNext == LeftAddB \/ LeftAddC \/ RightAddC \/ RightAddB

SpecAssoc == AssocInit /\ [][AssocNext]_vars

\* the fields a merge combines
MergedFields(st) ==
    <<st.count, st.size, st.disk_usage, st.char_count,
      st.char_count_no_space, st.line_count, st.word_counter,
      st.extensions, st.lines_lengths, st.complexity_max, st.skipped>>

(* C1: merge is associative.  For any three FileStatRecords A, B, C,       *)
(* folding B into A and then C into the result leaves A with the same      *)
(* value in every merged field as folding C into B first and then that B   *)
(* into A.                                                                 *)
C1_MergeAssociative ==
    ( /\ as_pcL = 2 /\ as_pcR = 2
      /\ \A n \in {"A", "B", "C"} : as_in[n] \in RecLib )
    => MergedFields(as_la) = MergedFields(as_ra)

(* C9: skip state is a running count.  After any sequence of merges into   *)
(* an aggregate, of records or of aggregates that already hold merged      *)
(* records, its skipped field is the number of skipped files among all the *)
(* files folded in, directly or through a merged aggregate.                *)
C9_SkippedIsRunningCount ==
    as_files # <<>> =>
        /\ as_la.skipped = SkippedAmong(as_files.la, as_in)
        /\ as_rb.skipped = SkippedAmong(as_files.rb, as_in)
        /\ as_ra.skipped = SkippedAmong(as_files.ra, as_in)

---------------------------------------------------------------------------
(* SpecFold: the same NumRecords records folded into two fresh aggregates, *)
(* into fo_x in index order and into fo_y in any order.                    *)

FoldInit ==
    /\ fo_in \in [1..NumRecords -> RecLib]
    /\ fo_x = FreshStats
    /\ fo_nx = 0
    /\ fo_y = FreshStats
    /\ fo_doneY = {}
    /\ IgnIdle /\ AssocIdle /\ ScanIdle

FoldX ==
    /\ fo_nx < NumRecords
    /\ fo_x' = Add(fo_x, fo_in[fo_nx + 1])
    /\ fo_nx' = fo_nx + 1
    /\ UNCHANGED <<fo_in, fo_y, fo_doneY, igVars, asVars, scanVars>>

FoldY ==
    \E i \in (1..NumRecords) \ fo_doneY :
        /\ fo_y' = Add(fo_y, fo_in[i])
        /\ fo_doneY' = fo_doneY \cup {i}
        /\ UNCHANGED <<fo_in, fo_x, fo_nx, igVars, asVars, scanVars>>

FoldNext == FoldX \/ FoldY

SpecFold == FoldInit /\ [][FoldNext]_vars

FoldDone == fo_in # <<>> /\ fo_nx = NumRecords /\ fo_doneY = 1..NumRecords

\* the multiset of the values of a list
BagOfSeq(seq) == CounterOf(seq)

(* C2: merge is order-independent.  Folding the same N records into a      *)
(* fresh aggregate in any permutation yields identical count, size,        *)
(* disk_usage, char_count, char_count_no_space, line_count, word table,    *)
(* extension table, complexity_max and skipped count, and a line-length    *)
(* collection holding the same multiset of values.                         *)
C2_MergeOrderIndependent ==
    FoldDone =>
        /\ fo_y.count = fo_x.count
        /\ fo_y.size = fo_x.size
        /\ fo_y.disk_usage = fo_x.disk_usage
        /\ fo_y.char_count = fo_x.char_count
        /\ fo_y.char_count_no_space = fo_x.char_count_no_space
        /\ fo_y.line_count = fo_x.line_count
        /\ fo_y.word_counter = fo_x.word_counter
        /\ fo_y.extensions = fo_x.extensions
        /\ fo_y.complexity_max = fo_x.complexity_max
        /\ fo_y.skipped = fo_x.skipped
        /\ BagOfSeq(fo_y.lines_lengths) = BagOfSeq(fo_x.lines_lengths)

\* two different orders have been folded to the end: the line lengths were
\* collected in different orders, some record was skipped and some record
\* raised complexity_max
C2_Witness ==
    /\ FoldDone
    /\ fo_y.lines_lengths # fo_x.lines_lengths
    /\ fo_x.skipped >= 1
    /\ fo_x.complexity_max >= 2
    /\ fo_x.count = NumRecords

---------------------------------------------------------------------------
(* SpecIgnore: is_ignored evaluated twice on the same (path, patterns,     *)
(* root), each time against a disk of its own.                             *)

IgRoot == "/r"

\* patterns an ignore file may hold
PatLib == {"dist/", "dist", "*.log", "src/temp/*", "di*/", "build/", ".*"}

\* root-relative forms of the paths asked about
RelPathLib == {"dist/app.js", "dist/sub/x.txt", "distillery/readme.md",
               "a.log", "dir/b.log", "src/temp/x", "dist", "build/o.txt"}

\* directories that may or may not exist under the root
DiskDirLib == {"/r/dist", "/r/build"}

PatternLists == UNION {[1..n -> PatLib] : n \in 1..MaxPatterns}

BoolStr(b) == IF b THEN "yes" ELSE "no"

IgnInit ==
    /\ ig_patterns \in PatternLists
    /\ ig_path \in {Join(IgRoot, r) : r \in RelPathLib}
    /\ ig_dirsA \in SUBSET DiskDirLib
    /\ ig_dirsB \in SUBSET DiskDirLib
    /\ ig_resA = "unset"
    /\ ig_resB = "unset"
    /\ AssocIdle /\ FoldIdle /\ ScanIdle

EvalA ==
    /\ ig_resA = "unset"
    /\ ig_resA' = BoolStr(IsIgnored(ig_path, ig_patterns, IgRoot, ig_dirsA))
    /\ UNCHANGED <<ig_patterns, ig_path, ig_dirsA, ig_dirsB, ig_resB>>
    /\ UNCHANGED <<asVars, foVars, scanVars>>

EvalB ==
    /\ ig_resB = "unset"
    /\ ig_resB' = BoolStr(IsIgnored(ig_path, ig_patterns, IgRoot, ig_dirsB))
    /\ UNCHANGED <<ig_patterns, ig_path, ig_dirsA, ig_dirsB, ig_resA>>
    /\ UNCHANGED <<asVars, foVars, scanVars>>

IgnNext == EvalA \/ EvalB

SpecIgnore == IgnInit /\ [][IgnNext]_vars

---------------------------------------------------------------------------
(* C5: is_ignored is a pure function of (path, pattern list, root): two    *)
(* evaluations with the same three inputs return the same boolean,         *)
(* whichever directories exist on disk at the time of each call.           *)
C5_PureFunction ==
    (ig_resA # "unset" /\ ig_resB # "unset") => ig_resA = ig_resB

(* C6: directory-prefix rule.  With a pattern P/ in the list, every path   *)
(* whose root-relative form starts with P/ is ignored, at any depth; and   *)
(* when P/ is the only pattern, a path whose first segment merely has P as *)
(* a proper string prefix, and whose base name and relative path do not    *)
(* glob-match P, is not ignored.                                           *)
IgRel == Relpath(ig_path, IgRoot)

FirstSeg(rel) == Segs(rel)[1]

C6_DirectoryPrefix ==
    \A i \in 1..Len(ig_patterns) :
        LET pat == ig_patterns[i]
            P == SubSeq(pat, 1, Len(pat) - 1)
        IN (ig_resA # "unset" /\ EndsWith(pat, "/")) =>
              /\ StartsWith(IgRel, P \o "/") => ig_resA = "yes"
              /\ ( /\ ig_patterns = <<pat>>
                   /\ P # ""
                   /\ LastIndexOf(P, "/") = 0
                   /\ StartsWith(FirstSeg(IgRel), P)
                   /\ FirstSeg(IgRel) # P
                   /\ ~Fnmatch(Basename(ig_path), P)
                   /\ ~Fnmatch(IgRel, P) ) => ig_resA = "no"

\* both cases of C6 have happened: dist/ has ignored a path two levels
\* below dist, or has let distillery/readme.md through
C6_Witness ==
    /\ ig_patterns = <<"dist/">>
    /\ \/ ig_path = "/r/dist/sub/x.txt" /\ ig_resA = "yes"
       \/ ig_path = "/r/distillery/readme.md" /\ ig_resA = "no"

---------------------------------------------------------------------------
(* Ignore files: IgnoreMatcher.load_patterns                               *)

\* str.strip(): whitespace removed at both ends
Strip(s) ==
    LET solid == {i \in 1..Len(s) : ~Contains(Whitespace, SubSeq(s, i, i))}
    IN IF solid = {} THEN ""
       ELSE SubSeq(s, CHOOSE m \in solid : \A x \in solid : m <= x, MaxOf(solid))

\* the lines "for line in f" yields in text mode: each ends at a "\n"
RECURSIVE FileLines(_, _)
FileLines(s, cur) ==
    IF s = "" THEN (IF cur = "" THEN <<>> ELSE <<cur>>)
    ELSE IF Head(s) = "\n" THEN <<cur \o "\n">> \o FileLines(Tail(s), "")
    ELSE FileLines(Tail(s), cur \o Head(s))

SourceLines(file) == FileLines(UniversalNewlines(file.bytes), "")

\* the loop body of load_patterns without its test: every line is appended
KeptPatternsUnfiltered(lines) == [i \in 1..Len(lines) |-> Strip(lines[i])]

\* the loop body of load_patterns over the lines read: blank lines and
\* comment lines are left out, the others appended stripped
RECURSIVE KeptPatterns(_)
KeptPatterns(lines) ==
    IF lines = <<>> THEN <<>>
    ELSE LET line == Strip(Head(lines))
         IN (IF line = "" \/ StartsWith(line, "#") THEN <<>> ELSE <<line>>)
            \o KeptPatterns(Tail(lines))

\* how many lines load_patterns can have read when it returns: all of them,
\* or those read before open, decoding (strict UTF-8) or a read raised
LinesRead(file) ==
    IF file.fault = "open" \/ Contains(file.bytes, BADBYTE)
    THEN {0}
    ELSE IF file.fault = "readlate" THEN 0..Len(SourceLines(file))
    ELSE {Len(SourceLines(file))}

\* load_patterns(filepath): self.patterns after the call, k lines read
LoadPatterns(pats, file, k) ==
    pats \o KeptPatterns(SubSeq(SourceLines(file), 1, k))

---------------------------------------------------------------------------
(* FileStats.to_dict: the exported form of a record (avg_line_len, taken   *)
(* from stats_summary, is left out)                                        *)

ToDict(self, lizard) ==
    LET computed == lizard /\ self.skipped = 0 /\ self.functions_count > 0
    IN [path |-> self.relpath,
        name |-> self.filename,
        ext |-> IF self.extensions # EmptyBag
                THEN CHOOSE e \in DOMAIN self.extensions : TRUE ELSE "",
        size |-> self.size,
        lines |-> self.line_count,
        chars |-> self.char_count,
        words |-> BagCardinality(self.word_counter),
        is_binary |-> self.skipped,
        complexity_avg |-> IF computed THEN self.complexity_avg ELSE 0,
        complexity_max |-> IF computed THEN self.complexity_max ELSE 0]

---------------------------------------------------------------------------
(* The trees scanned.  A tree is a record                                  *)
(*   root    target_dir_abs                                                *)
(*   exists  whether the root exists                                       *)
(*   dirs    per directory, what os.walk lists in it, in listing order     *)
(*   files   per file path, the file                                       *)

Listing(dirnames, filenames) == [dirs |-> dirnames, files |-> filenames]

\* a.txt and img.png
TreeProj ==
    [root |-> "/proj", exists |-> TRUE,
     dirs |-> ("/proj" :> Listing(<<>>, <<"a.txt", "img.png">>)),
     files |-> ("/proj/a.txt" :> MkFile("/proj/a.txt", "a b c\nd e\nf", 8, <<>>, "none")
             @@ "/proj/img.png" :> MkFile("/proj/img.png", "PNG" \o NUL, 8, <<>>, "none"))]

\* the same with the pattern in the project's .gitignore
TreeProjGit ==
    [root |-> "/proj", exists |-> TRUE,
     dirs |-> ("/proj" :> Listing(<<>>, <<".gitignore", "a.txt", "img.png">>)),
     files |-> ("/proj/a.txt" :> MkFile("/proj/a.txt", "a b c\nd e\nf", 8, <<>>, "none")
             @@ "/proj/img.png" :> MkFile("/proj/img.png", "PNG" \o NUL, 8, <<>>, "none")
             @@ "/proj/.gitignore" :> MkFile("/proj/.gitignore", "*.png\n", 8, <<>>, "none"))]

\* a root named dist that ignores dist/ in its own .analyzerignore
TreeDist ==
    [root |-> "/dist", exists |-> TRUE,
     dirs |-> ("/dist" :> Listing(<<"dist", "src">>, <<".analyzerignore", "a.txt">>)
            @@ "/dist/dist" :> Listing(<<>>, <<"app.js">>)
            @@ "/dist/src" :> Listing(<<>>, <<"m.py">>)),
     files |-> ("/dist/.analyzerignore" :>
                   MkFile("/dist/.analyzerignore", "# out\n\n dist/ \r\n", 8, <<>>, "none")
             @@ "/dist/a.txt" :> MkFile("/dist/a.txt", "hi\n", -1, <<>>, "none")
             @@ "/dist/dist/app.js" :> MkFile("/dist/dist/app.js", "f()\n", 8, <<1>>, "none")
             @@ "/dist/src/m.py" :> MkFile("/dist/src/m.py", "x = y\nz\n", 8, <<3, 1>>, "none"))]

\* nested directories, a log, a file with a null byte, an image
TreeNested ==
    [root |-> "/r", exists |-> TRUE,
     dirs |-> ("/r" :> Listing(<<"dist", "distillery">>, <<"IMG.PNG", "a.log", "data">>)
            @@ "/r/dist" :> Listing(<<"sub">>, <<"app.js">>)
            @@ "/r/dist/sub" :> Listing(<<>>, <<"x.txt">>)
            @@ "/r/distillery" :> Listing(<<>>, <<"readme.md">>)),
     files |-> ("/r/IMG.PNG" :> MkFile("/r/IMG.PNG", "ab", 8, <<>>, "none")
             @@ "/r/a.log" :> MkFile("/r/a.log", "e: x\n", 8, <<>>, "none")
             @@ "/r/data" :> MkFile("/r/data", "a" \o NUL \o "b", 8, <<>>, "none")
             @@ "/r/dist/app.js" :> MkFile("/r/dist/app.js", "f()\n", 8, <<2>>, "none")
             @@ "/r/dist/sub/x.txt" :>
                   MkFile("/r/dist/sub/x.txt", "a" \o BADBYTE \o "\r\nb", 8, <<>>, "none")
             @@ "/r/distillery/readme.md" :>
                   MkFile("/r/distillery/readme.md", "", 0, <<>>, "none"))]

\* a target directory that does not exist
TreeGone == [root |-> "/gone", exists |-> FALSE, dirs |-> <<>>, files |-> <<>>]

Trees == {TreeProj, TreeProjGit, TreeDist, TreeNested, TreeGone}

GlobalPath == "/tool/.analyzerignore"

\* the tool-global ignore file: absent, or one of these
GlobalLib ==
    {NoFile,
     MkFile(GlobalPath, "*.png\n", 8, <<>>, "none"),
     MkFile(GlobalPath, "*.png\n", 8, <<>>, "open"),
     MkFile(GlobalPath, "sub\n# logs\n*.log\n", 8, <<>>, "none"),
     MkFile(GlobalPath, "sub\n# logs\n*.log\n", 8, <<>>, "readlate"),
     MkFile(GlobalPath, "d?st\n.*\n", 8, <<>>, "none")}

\* the tree with the faults fa (file path -> fault) put on its files
WithFaults(tree, fa) ==
    [tree EXCEPT !.files =
        [f \in DOMAIN tree.files |->
            IF f \in DOMAIN fa THEN [tree.files[f] EXCEPT !.fault = fa[f]]
            ELSE tree.files[f]]]

\* the directories on disk
DiskDirs == DOMAIN fs.dirs

\* the file at a path of the tree, NoFile when there is none
FileAt(path) == IF path \in DOMAIN fs.files THEN fs.files[path] ELSE NoFile

Ignored(path) == IsIgnored(path, patterns, fs.root, DiskDirs)

---------------------------------------------------------------------------
(* Spec: one run of main()                                                 *)

ScanInit ==
    /\ pc = "Start"
    /\ \E tree \in Trees :
         \E S \in {X \in SUBSET DOMAIN tree.files : Cardinality(X) <= MaxFaulty} :
           \E fa \in [S -> Faults \ {"none"}] :
              fs = WithFaults(tree, fa)
    /\ global_ignore \in GlobalLib
    /\ has_lizard \in BOOLEAN
    /\ patterns = <<>>
    /\ walk_stack = <<>>
    /\ cur_root = ""
    /\ cur_files = <<>>
    /\ total_stats = FreshStats
    /\ all_file_details = <<>>
    /\ folder_stats_map = <<>>
    /\ descended = {}
    /\ measured = {}
    /\ IgnIdle /\ AssocIdle /\ FoldIdle

scanData == <<fs, global_ignore, has_lizard>>

walkVars == <<walk_stack, cur_root, cur_files, total_stats, all_file_details,
              folder_stats_map, descended, measured>>

\* main(): the target directory must exist
CheckRoot ==
    /\ pc = "Start"
    /\ pc' = IF fs.exists THEN "LoadGlobal" ELSE "Aborted"
    /\ UNCHANGED <<scanData, patterns, walkVars, igVars, asVars, foVars>>

\* IgnoreMatcher.__init__: "if os.path.exists(src): self.load_patterns(src)"
LoadSource(at, file, next) ==
    /\ pc = at
    /\ \E k \in (IF Exists(file) THEN LinesRead(file) ELSE {0}) :
          patterns' = IF Exists(file) THEN LoadPatterns(patterns, file, k)
                      ELSE patterns
    /\ pc' = next
    /\ UNCHANGED <<scanData, walkVars, igVars, asVars, foVars>>

LoadGlobal == LoadSource("LoadGlobal", global_ignore, "LoadGit")

LoadGit == LoadSource("LoadGit", FileAt(Join(fs.root, ".gitignore")), "LoadLocal")

LoadLocal ==
    LoadSource("LoadLocal", FileAt(Join(fs.root, ".analyzerignore")), "StartWalk")

\* os.walk(target_dir_abs) is started
StartWalk ==
    /\ pc = "StartWalk"
    /\ walk_stack' = <<fs.root>>
    /\ pc' = "Walk"
    /\ UNCHANGED <<scanData, patterns, cur_root, cur_files, total_stats,
                   all_file_details, folder_stats_map, descended, measured,
                   igVars, asVars, foVars>>

\* dirs[:] = [d for d in dirs if not is_ignored(join(root, d))], unpruned
KeptDirsAll(top, names, pats, root, dirs) ==
    [i \in 1..Len(names) |-> Join(top, names[i])]

\* dirs[:] = [d for d in dirs if not is_ignored(join(root, d))]: the paths
\* of the directories os.walk will descend into
RECURSIVE KeptDirs(_, _, _, _, _)
KeptDirs(top, names, pats, root, dirs) ==
    IF names = <<>> THEN <<>>
    ELSE (IF IsIgnored(Join(top, Head(names)), pats, root, dirs)
          THEN <<>> ELSE <<Join(top, Head(names))>>)
         \o KeptDirs(top, Tail(names), pats, root, dirs)

\* os.walk yields the next (root, dirs, files); the loop body prunes dirs
WalkDir ==
    /\ pc = "Walk"
    /\ cur_files = <<>>
    /\ walk_stack # <<>>
    /\ LET top == Head(walk_stack)
       IN /\ cur_root' = top
          /\ cur_files' = fs.dirs[top].files
          /\ walk_stack' = KeptDirs(top, fs.dirs[top].dirs, patterns, fs.root,
                                    DiskDirs) \o Tail(walk_stack)
          /\ descended' = descended \cup {top}
    /\ UNCHANGED <<pc, scanData, patterns, total_stats, all_file_details,
                   folder_stats_map, measured, igVars, asVars, foVars>>

\* calculate_stats that lets the error of a failing os.stat out
CalculateStatsRaisesOnStat(file) == file.fault = "stat"

\* whether calculate_stats raises: its try/except Exception lets nothing out
CalculateStatsRaises(file) == FALSE

\* folder_stats_map[root] = file_stats folded into a new FileStats: what a
\* plain assignment in place of the defaultdict's add would leave
FolderAddOverwriting(map, root, file_stats) ==
    IF root \in DOMAIN map
    THEN [map EXCEPT ![root] = Add(FreshStats, file_stats)]
    ELSE map @@ (root :> Add(FreshStats, file_stats))

\* folder_stats_map[root].add(file_stats) on a defaultdict(FileStats)
FolderAdd(map, root, file_stats) ==
    IF root \in DOMAIN map
    THEN [map EXCEPT ![root] = Add(@, file_stats)]
    ELSE map @@ (root :> Add(FreshStats, file_stats))

\* one pass of "for file in files": an ignored file is passed over, any
\* other is measured, folded into the totals and recorded
ProcessFile ==
    /\ pc = "Walk"
    /\ cur_files # <<>>
    /\ LET filepath == Join(cur_root, Head(cur_files))
           file == fs.files[filepath]
           file_stats == CalculateStats(file, fs.root, has_lizard)
           skip == Ignored(filepath)
           raised == ~skip /\ CalculateStatsRaises(file)
           folded == ~skip /\ ~raised
       IN /\ pc' = IF raised THEN "Crashed" ELSE pc
          /\ cur_files' = IF raised THEN cur_files ELSE Tail(cur_files)
          /\ measured' = IF skip THEN measured ELSE measured \cup {filepath}
          /\ total_stats' = IF folded THEN Add(total_stats, file_stats)
                            ELSE total_stats
          /\ all_file_details' = IF folded
                                 THEN Append(all_file_details, file_stats)
                                 ELSE all_file_details
          /\ folder_stats_map' = IF folded
                                 THEN FolderAdd(folder_stats_map, cur_root,
                                                file_stats)
                                 ELSE folder_stats_map
    /\ UNCHANGED <<scanData, patterns, walk_stack, cur_root, descended,
                   igVars, asVars, foVars>>

\* os.walk is exhausted
FinishWalk ==
    /\ pc = "Walk"
    /\ cur_files = <<>>
    /\ walk_stack = <<>>
    /\ pc' = "Done"
    /\ UNCHANGED <<scanData, patterns, walkVars, igVars, asVars, foVars>>

ScanNext ==
    \/ CheckRoot
    \/ LoadGlobal
    \/ LoadGit
    \/ LoadLocal
    \/ StartWalk
    \/ WalkDir
    \/ ProcessFile
    \/ FinishWalk

Spec == ScanInit /\ [][ScanNext]_vars

\* a step of the run can be taken: the guards of the actions of ScanNext,
\* each of which assigns every variable and changes pc, the directory at
\* hand or the files left in it
ScanEnabled ==
    \/ pc \in {"Start", "LoadGlobal", "LoadGit", "LoadLocal", "StartWalk"}
    \/ pc = "Walk" /\ cur_files # <<>>
    \/ pc = "Walk" /\ cur_files = <<>> /\ walk_stack # <<>>
    \/ pc = "Walk" /\ cur_files = <<>> /\ walk_stack = <<>>

\* main() is sequential code: a step that can be taken is taken.  This is
\* weak fairness of ScanNext, with its enabling condition written out
ScanFairness == []<>(~ScanEnabled) \/ []<><<ScanNext>>_vars

LiveSpec == ScanInit /\ [][ScanNext]_vars /\ ScanFairness

---------------------------------------------------------------------------
(* Claims about the scan                                                   *)

\* os.path.dirname
Dirname(path) == SubSeq(path, 1, LastIndexOf(path, "/") - 1)

\* path lies below the directory dir
Beneath(path, dir) == StartsWith(path, dir \o "/")

Scanning == pc \in {"Walk", "Done"}

DetailPaths == {all_file_details[i].filepath : i \in 1..Len(all_file_details)}

\* the records are those of the measured files, one each, and each is
\* folded into the project total and into its own directory's aggregate
OnlyMeasuredAggregated ==
    /\ DetailPaths = measured
    /\ Len(all_file_details) = Cardinality(measured)
    /\ total_stats.count = Cardinality(measured)
    /\ DOMAIN folder_stats_map = {Dirname(f) : f \in measured}
    /\ \A d \in DOMAIN folder_stats_map :
          folder_stats_map[d].count = Cardinality({f \in measured : Dirname(f) = d})

(* C3 as stated: excluded subtrees are never traversed.  No directory for  *)
(* which is_ignored is true is ever descended into, and no file that is    *)
(* ignored or lies beneath an ignored directory is ever measured, recorded *)
(* or folded into an aggregate.                                            *)
C3_NoIgnoredTraversal ==
    Scanning =>
        /\ \A d \in descended : ~Ignored(d)
        /\ \A f \in measured :
              /\ ~Ignored(f)
              /\ \A d \in DiskDirs : Beneath(f, d) => ~Ignored(d)
        /\ OnlyMeasuredAggregated

(* C3 as amended: the same of every directory other than the scan root,    *)
(* which os.walk always enters and is_ignored is never asked about.        *)
C3_NoIgnoredTraversalBelowRoot ==
    Scanning =>
        /\ \A d \in descended \ {fs.root} : ~Ignored(d)
        /\ \A f \in measured :
              /\ ~Ignored(f)
              /\ \A d \in DiskDirs \ {fs.root} : Beneath(f, d) => ~Ignored(d)
        /\ OnlyMeasuredAggregated

\* a scan has ended that left out an ignored directory holding a file that
\* is not ignored by itself, and measured other files
C3_Witness ==
    /\ pc = "Done"
    /\ measured # {}
    /\ \E d \in DiskDirs \ {fs.root} :
          /\ Ignored(d)
          /\ d \notin descended
          /\ \E f \in DOMAIN fs.files : Beneath(f, d) /\ ~Ignored(f)

\* the end-to-end scenario: a.txt and img.png under the root, the pattern
\* *.png in the tool-global ignore file
C4Global ==
    /\ fs = TreeProj
    /\ global_ignore = MkFile(GlobalPath, "*.png\n", 8, <<>>, "none")

\* the same scenario with the pattern in the root's .gitignore
C4Git ==
    /\ fs = TreeProjGit
    /\ global_ignore = NoFile

(* C4 as stated: with a.txt (3 lines), img.png (binary) and the ignore     *)
(* pattern *.png, the scan ends with count = 2, line_count = 3 and exactly *)
(* one file flagged skipped.                                               *)
C4_EndToEnd ==
    (pc = "Done" /\ (C4Global \/ C4Git)) =>
        /\ total_stats.count = 2
        /\ total_stats.line_count = 3
        /\ total_stats.skipped = 1

(* C4 as amended: img.png is excluded by the pattern, so it is neither     *)
(* counted nor flagged: no file is flagged skipped.  With the pattern in   *)
(* the tool-global ignore file count = 1 and line_count = 3 (a.txt alone); *)
(* with the pattern in the root's .gitignore that file is scanned too, so  *)
(* count = 2 and line_count = 4.                                           *)
C4_EndToEndIgnoredNotCounted ==
    pc = "Done" =>
        /\ C4Global =>
              /\ total_stats.count = 1
              /\ total_stats.line_count = 3
              /\ total_stats.skipped = 0
              /\ DetailPaths = {"/proj/a.txt"}
        /\ C4Git =>
              /\ total_stats.count = 2
              /\ total_stats.line_count = 4
              /\ total_stats.skipped = 0
              /\ DetailPaths = {"/proj/a.txt", "/proj/.gitignore"}

C4_Witness == pc = "Done" /\ C4Global /\ total_stats.line_count = 3

\* the complexity a record holds, and the complexity its export shows
ComplexityOf(rec) == <<rec.functions_count, rec.complexity_avg, rec.complexity_max>>

ExportedComplexity(d) == <<d.complexity_avg, d.complexity_max>>

\* the record of the same file when the probe runs and finds no function:
\* complexity computed, and zero
ComputedZero(file) ==
    CalculateStats([file EXCEPT !.funcs = <<>>, !.fault = "none"], fs.root, TRUE)

(* C7: complexity gating.  When the complexity capability is unavailable,  *)
(* every record of the scan and its exported form report complexity as not *)
(* computed, distinguishably from a record whose complexity was computed   *)
(* and is zero; no numeric zero is reported for an unmeasured file.        *)
C7_ComplexityGating ==
    (Scanning /\ ~has_lizard) =>
        \A i \in 1..Len(all_file_details) :
            LET rec == all_file_details[i]
                zero == ComputedZero(fs.files[rec.filepath])
            IN zero.skipped = 0 =>
                  /\ ComplexityOf(rec) # ComplexityOf(zero)
                  /\ ExportedComplexity(ToDict(rec, has_lizard))
                         # ExportedComplexity(ToDict(zero, TRUE))
                  /\ ToDict(rec, has_lizard).complexity_max # 0

\* the directories os.walk reaches: every directory on the way down from
\* the root, the root excepted, is not ignored
Reached(d) ==
    \A a \in DiskDirs \ {fs.root} : (a = d \/ Beneath(d, a)) => ~Ignored(a)

\* the files a scan has to record: those that are not ignored, in the
\* directories it reaches
ExpectedFiles ==
    {f \in DOMAIN fs.files : Reached(Dirname(f)) /\ ~Ignored(f)}

(* C8: failure containment and completion.  From an existing root the scan *)
(* always reaches Done, whichever per-file steps and pattern sources fail; *)
(* no failure aborts the traversal, and every file that is not ignored, in *)
(* a directory the walk reaches, has exactly one record.                   *)
C8_FailureContainment ==
    /\ fs.exists => <>(pc = "Done")
    /\ [](pc # "Crashed")
    /\ [](pc = "Done" =>
            /\ DetailPaths = ExpectedFiles
            /\ Len(all_file_details) = Cardinality(ExpectedFiles))

\* a scan has ended although a pattern source failed to load and a step
\* failed on one of the files it recorded
C8_Witness ==
    /\ pc = "Done"
    /\ global_ignore.fault \in {"open", "readlate"}
    /\ Len(all_file_details) >= 2
    /\ \E f \in measured : fs.files[f].fault # "none"

(* C10: a file that is binary by any of the three criteria (known binary   *)
(* extension, null byte in the first 1024 bytes, cannot be opened) yields  *)
(* a record with skipped = true, count = 1, no characters, lines, words or *)
(* line lengths and zero complexity, so that folding it changes only       *)
(* count, size, disk usage, extension table and skipped count.             *)
C10_BinaryOnlySizeAndExtension ==
    Scanning =>
        \A i \in 1..Len(all_file_details) :
            LET rec == all_file_details[i]
                agg == Add(FreshStats, rec)
            IN IsBinaryFile(fs.files[rec.filepath]) =>
                  /\ rec.skipped = 1
                  /\ rec.count = 1
                  /\ rec.char_count = 0
                  /\ rec.char_count_no_space = 0
                  /\ rec.line_count = 0
                  /\ rec.word_counter = EmptyBag
                  /\ rec.lines_lengths = <<>>
                  /\ ComplexityOf(rec) = <<0, 0, 0>>
                  /\ agg.skipped = 1
                  /\ [agg EXCEPT !.count = 0, !.size = 0, !.disk_usage = 0,
                                 !.extensions = EmptyBag, !.skipped = 0]
                        = FreshStats

---------------------------------------------------------------------------
\* the file of a record
FileOf(rec) == fs.files[rec.filepath]

\* the file cannot be read during measurement: its metadata cannot be
\* obtained, it cannot be opened, or reading it fails
Unreadable(file) == file.fault \in {"stat", "open", "readlate"}

(* C11: every file that cannot be read during measurement (metadata not    *)
(* obtainable, open fails, or a read fails) produces a record marked       *)
(* skipped, and the scan continues with the next file: the run does not    *)
(* end in an uncaught exception, and the file has its record.              *)
C11_UnreadableMarkedSkipped ==
    /\ pc # "Crashed"
    /\ Scanning =>
          /\ \A f \in measured : f \in DetailPaths
          /\ \A i \in 1..Len(all_file_details) :
                Unreadable(FileOf(all_file_details[i])) =>
                    all_file_details[i].skipped = 1

---------------------------------------------------------------------------
\* the pattern sources load_patterns has been called on so far, in the
\* order of IgnoreMatcher.__init__
LoadedSources ==
    LET all == <<global_ignore, FileAt(Join(fs.root, ".gitignore")),
                 FileAt(Join(fs.root, ".analyzerignore"))>>
        n == CASE pc \in {"Start", "LoadGlobal", "Aborted"} -> 0
               [] pc = "LoadGit" -> 1
               [] pc = "LoadLocal" -> 2
               [] OTHER -> 3
    IN SelectSeq(SubSeq(all, 1, n), Exists)

\* the whitespace-trimmed lines of a sequence of sources, in order
RECURSIVE TrimmedLines(_)
TrimmedLines(sources) ==
    IF sources = <<>> THEN <<>>
    ELSE LET lines == SourceLines(Head(sources))
         IN [i \in 1..Len(lines) |-> Strip(lines[i])]
            \o TrimmedLines(Tail(sources))

\* a is b with some of its elements left out
RECURSIVE IsSubseq(_, _)
IsSubseq(a, b) ==
    IF a = <<>> THEN TRUE
    ELSE IF b = <<>> THEN FALSE
    ELSE IF Head(a) = Head(b) THEN IsSubseq(Tail(a), Tail(b))
    ELSE IsSubseq(a, Tail(b))

IsPrefix(a, b) == Len(a) <= Len(b) /\ SubSeq(b, 1, Len(a)) = a

\* the source is read to its end: nothing fails on it
ReadsCleanly(file) == file.fault = "none" /\ ~Contains(file.bytes, BADBYTE)

PatternSet == {patterns[i] : i \in 1..Len(patterns)}

(* C12: after loading any sequence of pattern sources, some of which may   *)
(* fail to open or fail part-way through reading, the pattern list holds   *)
(* no empty string and no string starting with "#"; its entries are        *)
(* whitespace-trimmed lines of the sources, in load order (tool-global,    *)
(* .gitignore, project-local); a failing source removes no pattern         *)
(* already appended, and every later source that reads cleanly still       *)
(* contributes each of its pattern lines.                                  *)
C12_PatternListContent ==
    /\ [](\A i \in 1..Len(patterns) :
             patterns[i] # "" /\ ~StartsWith(patterns[i], "#"))
    /\ [](IsSubseq(patterns, TrimmedLines(LoadedSources)))
    /\ [](\A j \in 1..Len(LoadedSources) :
             ReadsCleanly(LoadedSources[j]) =>
                \A t \in {TrimmedLines(<<LoadedSources[j]>>)[k] :
                             k \in 1..Len(TrimmedLines(<<LoadedSources[j]>>))} :
                    (t # "" /\ ~StartsWith(t, "#")) => t \in PatternSet)
    /\ [][IsPrefix(patterns, patterns')]_vars

\* the tool-global source failed after its first pattern was appended; the
\* pattern stayed and the project-local source, with a comment line, a
\* blank line and a padded pattern, was loaded after it
C12_Witness ==
    /\ pc = "StartWalk"
    /\ global_ignore.fault = "readlate"
    /\ patterns = <<"sub", "dist/">>

---------------------------------------------------------------------------
\* the sum of a field over the folder aggregates of the directories dirs
RECURSIVE FolderSum(_, _)
FolderSum(dirs, field) ==
    IF dirs = {} THEN 0
    ELSE LET d == CHOOSE x \in dirs : TRUE
         IN folder_stats_map[d][field] + FolderSum(dirs \ {d}, field)

\* the records folded one after the other into a new FileStats
RECURSIVE FoldRecords(_, _)
FoldRecords(acc, recs) ==
    IF recs = <<>> THEN acc
    ELSE FoldRecords(Add(acc, Head(recs)), Tail(recs))

\* the records of the files listed in directory d, in scan order
RecordsIn(d) ==
    LET InDir(rec) == Dirname(rec.filepath) = d
    IN SelectSeq(all_file_details, InDir)

(* C13: nested aggregation stays consistent.  In every state of the scan   *)
(* the project count equals the number of records and the sum of the       *)
(* folder counts; project size, line_count, char_count and skipped equal   *)
(* the sums of those fields over the folder aggregates; every record is    *)
(* folded into exactly one folder aggregate, that of its directory.        *)
C13_NestedAggregationConsistent ==
    /\ total_stats.count = Len(all_file_details)
    /\ \A field \in {"count", "size", "line_count", "char_count", "skipped"} :
          total_stats[field] = FolderSum(DOMAIN folder_stats_map, field)
    /\ DOMAIN folder_stats_map =
          {Dirname(all_file_details[i].filepath) : i \in 1..Len(all_file_details)}
    /\ \A d \in DOMAIN folder_stats_map :
          folder_stats_map[d] = FoldRecords(FreshStats, RecordsIn(d))

\* a scan has ended with several folder aggregates, one of them holding
\* more than one file, and with a skipped file
C13_Witness ==
    /\ pc = "Done"
    /\ Cardinality(DOMAIN folder_stats_map) >= 2
    /\ \E d \in DOMAIN folder_stats_map : folder_stats_map[d].count >= 2
    /\ total_stats.skipped >= 1
    /\ total_stats.line_count >= 2

---------------------------------------------------------------------------
\* the key calculate_stats counts a file's extension under
ExtensionKey(file) ==
    IF Lower(Splitext(file.path)) = "" THEN "no_ext"
    ELSE Lower(Splitext(file.path))

(* C14: every record returned by the per-file measurement routine, one     *)
(* returned after a stat or other I/O error included, has count = 1 and an *)
(* extension table with exactly one key, the lower-cased extension or      *)
(* no_ext, counted once, so that report export can read the record's       *)
(* single extension.                                                       *)
C14_RecordHasOneExtension ==
    \A i \in 1..Len(all_file_details) :
        LET rec == all_file_details[i]
        IN /\ rec.count = 1
           /\ rec.extensions = SetToBag({ExtensionKey(FileOf(rec))})

=============================================================================
